---- MODULE Spec2Model ----
(***************************************************************************)
(* Checkout / order workflow of unitech-server: the order routes           *)
(* (createOrder, confirmPayment, cancelOrder, updateStatus), the cart      *)
(* routes (addItem, updateQuantity, removeItem, clear, applyCoupon) with   *)
(* the Mongoose cart model, the product catalogue and the payment gateway. *)
(* Spec runs the order routes, SpecCart the cart routes.                   *)
(* Every HTTP request is a process; one action is the code a handler runs  *)
(* between two awaits, so requests interleave exactly at the awaits.       *)
(* Money is kept in paise (1/100 rupee) so that the 18% tax and the        *)
(* percentage discounts are exact integers.                                *)
(***************************************************************************)
EXTENDS Integers, Sequences, FiniteSets, TLC

\* ------------------------------------------------------------------ bounds

\* Number of HTTP requests of a behaviour (each request slot is used once).
NumReqs == 3
\* Stock every product starts with.
InitStock == 2
\* Largest quantity of a cart line in the initial carts.
MaxQty == 2
\* Number of requests that may be in flight at the same time.
MaxInFlight == 2

\* ------------------------------------------------------------- value sets

Customers == {"u1", "u2"}
Users == Customers \cup {"admin"}
Products == {"p1", "p2"}
Reqs == 1..NumReqs

\* req.user.role, as the auth middleware loads it.
Role(u) == IF u = "admin" THEN "admin" ELSE "user"

\* body('paymentMethod').isIn([...])
PaymentMethods == {"card", "upi", "netbanking", "cod", "wallet"}
\* The payment methods the requests of the model send.
MethodInputs == {"card", "cod", "upi"}

\* validStatuses of PUT /:id/status
ValidStatuses ==
    {"pending", "confirmed", "processing", "shipped", "out_for_delivery",
     "delivered", "cancelled", "returned", "refunded"}
\* The statuses the requests of the model send ("bogus" is not a valid one).
StatusInputs == {"shipped", "delivered", "cancelled", "bogus"}

\* Product documents at start-up: name, price (paise), isActive, stock.
InitProducts ==
    [p \in Products |->
        [name |-> p,
         price |-> IF p = "p1" THEN 60000 ELSE 5000,
         isActive |-> TRUE,
         stock |-> InitStock]]

\* ------------------------------------------------------------------ carts

\* cartItemSchema: product, quantity, price (the price snapshot).
Line(p, q, pr) == [product |-> p, quantity |-> q, price |-> pr]

\* cartSchema.coupon when it is null.
NoCoupon == [code |-> "", discount |-> 0, discountType |-> "none"]
\* A 10% coupon, as POST /cart/coupon stores it.
TenPercent == [code |-> "SAVE10", discount |-> 10, discountType |-> "percentage"]

\* Cart.findOne(...) === null
NoCart == [exists |-> FALSE, items |-> <<>>, coupon |-> NoCoupon, v |-> 0]
\* A cart document: its lines, its coupon and Mongoose's version key __v,
\* which a save increments when it pushes to or replaces the items array.
MkCart(items, coupon) ==
    [exists |-> TRUE, items |-> items, coupon |-> coupon, v |-> 0]

\* The carts the customers may hold when the behaviour starts. Each is a cart
\* the cart routes produce: lines unique by product, prices refreshed.
InitCartChoices(u) ==
    IF u = "u1"
    THEN {MkCart(<<Line("p1", MaxQty, InitProducts["p1"].price)>>, NoCoupon),
          MkCart(<<Line("p1", 1, InitProducts["p1"].price),
                   Line("p2", MaxQty, InitProducts["p2"].price)>>, TenPercent)}
    ELSE {NoCart,
          MkCart(<<Line("p1", 1, InitProducts["p1"].price)>>, NoCoupon)}

\* cartSchema.virtual('subtotal')
RECURSIVE Subtotal(_)
Subtotal(items) ==
    IF items = <<>> THEN 0
    ELSE Head(items).price * Head(items).quantity + Subtotal(Tail(items))

Min(a, b) == IF a <= b THEN a ELSE b

\* Variant of DiscountAmount: a fixed discount is not capped at the subtotal.
DiscountAmount_FixedUncapped(items, coupon) ==
    IF coupon.discountType = "none" \/ coupon.discount = 0 THEN 0
    ELSE IF coupon.discountType = "percentage"
         THEN (Subtotal(items) * coupon.discount) \div 100
         ELSE coupon.discount * 100

\* cartSchema.virtual('discountAmount'); a fixed discount is in rupees.
DiscountAmount(items, coupon) ==
    IF coupon.discountType = "none" \/ coupon.discount = 0 THEN 0
    ELSE IF coupon.discountType = "percentage"
         THEN (Subtotal(items) * coupon.discount) \div 100
         ELSE Min(coupon.discount * 100, Subtotal(items))

\* Variant of ClearedCart: the coupon is kept.
ClearedCart_KeepCoupon(cart) == [cart EXCEPT !.items = <<>>]

\* cartSchema.statics.clearCart: items = [], coupon = null, save. Replacing a
\* non-empty items array increments the version key.
ClearedCart(cart) ==
    [cart EXCEPT !.items = <<>>, !.coupon = NoCoupon,
                 !.v = IF cart.items = <<>> THEN @ ELSE @ + 1]

\* ----------------------------------------------------------------- orders

\* Order.paymentId / Order.stripePaymentIntentId when unset.
NoIntent == 0

\* cart.items after .populate('items.product'): each line carries its product
\* document as read at that moment.
Populate(items, prods) ==
    [k \in 1..Len(items) |->
        [product |-> items[k].product,
         quantity |-> items[k].quantity,
         price |-> items[k].price,
         doc |-> prods[items[k].product]]]

\* Variant of LineInStock: the stock comparison is left out.
LineInStock_NoCheck(item) == TRUE

\* One pass of the availability loop: TRUE when the line may be ordered.
LineInStock(item) == ~(item.doc.stock < item.quantity)

\* The availability loop of POST /orders: the first line that is inactive or
\* short of stock ends the request with a 400.
RECURSIVE CheckAvailability(_)
CheckAvailability(items) ==
    IF items = <<>> THEN "ok"
    ELSE IF ~Head(items).doc.isActive THEN "unavailable"
    ELSE IF ~LineInStock(Head(items)) THEN "insufficient"
    ELSE CheckAvailability(Tail(items))

\* const orderItems = cart.items.map(...): the frozen copy of each line.
OrderItems(items) ==
    [k \in 1..Len(items) |->
        [product |-> items[k].product,
         quantity |-> items[k].quantity,
         price |-> items[k].doc.price,
         name |-> items[k].doc.name]]

\* const tax = subtotal * 0.18
Tax(subtotal) == (subtotal * 18) \div 100
\* Variant of Shipping: a subtotal of exactly 1000 ships free.
Shipping_FreeAt1000(subtotal) == IF subtotal >= 1000 * 100 THEN 0 ELSE 100 * 100
\* const shipping = subtotal > 1000 ? 0 : 100 (rupees; here in paise)
Shipping(subtotal) == IF subtotal > 1000 * 100 THEN 0 ELSE 100 * 100
\* Variant of Total: the discount is taken off twice.
Total_DiscountTwice(subtotal, discount) ==
    subtotal - 2 * discount + Tax(subtotal) + Shipping(subtotal)
\* const total = subtotal - discount + tax + shipping
Total(subtotal, discount) == subtotal - discount + Tax(subtotal) + Shipping(subtotal)

\* new Order({...}): the document before it is saved. paymentStatus and
\* orderStatus take the schema defaults.
NewOrder(u, items, coupon, method) ==
    [user |-> u,
     items |-> OrderItems(items),
     paymentMethod |-> method,
     subtotal |-> Subtotal(items),
     tax |-> Tax(Subtotal(items)),
     shipping |-> Shipping(Subtotal(items)),
     discount |-> DiscountAmount(items, coupon),
     total |-> Total(Subtotal(items), DiscountAmount(items, coupon)),
     coupon |-> coupon,
     paymentStatus |-> "pending",
     orderStatus |-> "pending",
     paymentId |-> NoIntent,
     stripePaymentIntentId |-> NoIntent,
     deliveredAt |-> FALSE]

\* Variant of OfflinePaymentStatus: every order starts unpaid.
OfflinePaymentStatus_AllPending(method) == "pending"

\* order.paymentStatus = paymentMethod === 'cod' ? 'pending' : 'completed'
\* (the branch of the methods that are not card).
OfflinePaymentStatus(method) == IF method = "cod" THEN "pending" ELSE "completed"

\* $inc: { stock: -item.quantity }
StockAfterOrder(stock, quantity) == stock - quantity

\* ------------------------------------------------------------------ state

VARIABLES
    products,   \* Product collection: id -> document
    carts,      \* Cart collection: user -> cart document (NoCart: none)
    orders,     \* Order collection, in creation order; an order's id is its index
    intents,    \* payment gateway: intent id (index) -> status
    reqs        \* request slot -> the handler's position and local variables

vars == <<products, carts, orders, intents, reqs>>

NoResult == [status |-> 0, message |-> ""]
NoOrder == [user |-> "none"]

\* A request that has not arrived yet.
IdleReq ==
    [op |-> "none", user |-> "none", pc |-> "idle", method |-> "none",
     oid |-> 0, intent |-> NoIntent,
     product |-> "none", quantity |-> 0, coupon |-> NoCoupon, drop |-> {},
     delta |-> "none", mod |-> {},
     cart |-> NoCart, order |-> NoOrder, i |-> 0, result |-> NoResult]

Init ==
    /\ products = InitProducts
    /\ carts \in {c \in [Users -> {NoCart} \cup UNION {InitCartChoices(u) : u \in Customers}] :
                    /\ c["admin"] = NoCart
                    /\ \A u \in Customers : c[u] \in InitCartChoices(u)}
    /\ orders = <<>>
    /\ intents = <<>>
    /\ reqs = [r \in Reqs |-> IdleReq]

InFlight == {q \in Reqs : reqs[q].pc \notin {"idle", "done"}}

\* Request slots are taken in order, each once.
CanStart(r) ==
    /\ reqs[r].pc = "idle"
    /\ \A q \in Reqs : q < r => reqs[q].pc # "idle"
    /\ Cardinality(InFlight) < MaxInFlight

\* res.status(status).json({ message }): the handler ends and its local
\* variables are gone; the slot keeps what the request was (operation, user,
\* payment method, order id, intent id, coupon) and its answer.
Respond(req, status, message) ==
    [IdleReq EXCEPT !.op = req.op, !.user = req.user, !.method = req.method,
                    !.oid = req.oid, !.intent = req.intent,
                    !.coupon = req.coupon, !.pc = "done",
                    !.result = [status |-> status, message |-> message]]

\* ------------------------------------------------- POST /orders (createOrder)

\* The request arrives; Cart.findOne(...).populate(...), the availability loop,
\* the totals and new Order(...), up to the next await.
CreateOrderLoad(r) ==
    /\ CanStart(r)
    /\ \E u \in Customers, m \in MethodInputs :
        LET req == [IdleReq EXCEPT !.op = "createOrder", !.user = u, !.method = m,
                                   !.cart = carts[u]]
            items == Populate(carts[u].items, products)
            check == CheckAvailability(items)
        IN  reqs' = [reqs EXCEPT ![r] =
                IF m \notin PaymentMethods THEN Respond(req, 400, "Validation failed")
                ELSE IF ~carts[u].exists \/ Len(carts[u].items) = 0
                THEN Respond(req, 400, "Cart is empty")
                ELSE IF check = "unavailable"
                THEN Respond(req, 400, "is no longer available")
                ELSE IF check = "insufficient"
                THEN Respond(req, 400, "only has N items in stock")
                ELSE IF m = "card"
                THEN [req EXCEPT !.pc = "co_intent",
                                 !.order = NewOrder(u, items, carts[u].coupon, m)]
                ELSE [req EXCEPT !.pc = "co_save",
                                 !.order = [NewOrder(u, items, carts[u].coupon, m)
                                     EXCEPT !.paymentStatus = OfflinePaymentStatus(m)]]]
    /\ UNCHANGED <<products, carts, orders, intents>>

\* Variant of CreateOrderIntent: a failed intent creation is swallowed and
\* the handler goes on to save the order.
CreateOrderIntent_Swallow(r) ==
    /\ reqs[r].pc = "co_intent"
    /\ \/ /\ intents' = Append(intents, "requires_payment_method")
          /\ reqs' = [reqs EXCEPT ![r].pc = "co_save",
                                  ![r].intent = Len(intents) + 1,
                                  ![r].order.stripePaymentIntentId = Len(intents) + 1,
                                  ![r].order.paymentStatus = "pending"]
       \/ /\ reqs' = [reqs EXCEPT ![r].pc = "co_save"]
          /\ UNCHANGED intents
    /\ UNCHANGED <<products, carts, orders>>

\* await stripe.paymentIntents.create(...): the gateway answers with a new
\* intent, or the call throws and the catch block answers 500.
CreateOrderIntent(r) ==
    /\ reqs[r].pc = "co_intent"
    /\ \/ /\ intents' = Append(intents, "requires_payment_method")
          /\ reqs' = [reqs EXCEPT ![r].pc = "co_save",
                                  ![r].intent = Len(intents) + 1,
                                  ![r].order.stripePaymentIntentId = Len(intents) + 1,
                                  ![r].order.paymentStatus = "pending"]
       \/ /\ reqs' = [reqs EXCEPT ![r] = Respond(@, 500, "Failed to place order")]
          /\ UNCHANGED intents
    /\ UNCHANGED <<products, carts, orders>>

\* Variant of CreateOrderSave: a failed save is swallowed and the handler goes
\* on to the stock loop.
CreateOrderSave_Swallow(r) ==
    /\ reqs[r].pc = "co_save"
    /\ \/ /\ orders' = Append(orders, reqs[r].order)
          /\ reqs' = [reqs EXCEPT ![r].pc = "co_stock", ![r].oid = Len(orders) + 1,
                                  ![r].i = 1]
       \/ /\ reqs' = [reqs EXCEPT ![r].pc = "co_stock", ![r].i = 1]
          /\ UNCHANGED orders
    /\ UNCHANGED <<products, carts, intents>>

\* await order.save(): the order is persisted, or the save throws.
CreateOrderSave(r) ==
    /\ reqs[r].pc = "co_save"
    /\ \/ /\ orders' = Append(orders, reqs[r].order)
          /\ reqs' = [reqs EXCEPT ![r].pc = "co_stock", ![r].oid = Len(orders) + 1,
                                  ![r].i = 1]
       \/ /\ reqs' = [reqs EXCEPT ![r] = Respond(@, 500, "Failed to place order")]
          /\ UNCHANGED orders
    /\ UNCHANGED <<products, carts, intents>>

\* One pass of the stock loop: await Product.findByIdAndUpdate(item.product,
\* { $inc: { stock: -item.quantity } }).
CreateOrderStock(r) ==
    /\ reqs[r].pc = "co_stock"
    /\ LET item == reqs[r].order.items[reqs[r].i]
       IN  products' = [products EXCEPT ![item.product].stock =
                            StockAfterOrder(@, item.quantity)]
    /\ reqs' = [reqs EXCEPT ![r].i = @ + 1,
                            ![r].pc = IF reqs[r].i = Len(reqs[r].order.items)
                                      THEN "co_clear" ELSE "co_stock"]
    /\ UNCHANGED <<carts, orders, intents>>

\* await Cart.clearCart(req.user._id), which throws when the cart is gone.
CreateOrderClear(r) ==
    /\ reqs[r].pc = "co_clear"
    /\ IF carts[reqs[r].user].exists
       THEN /\ carts' = [carts EXCEPT ![reqs[r].user] = ClearedCart(@)]
            /\ reqs' = [reqs EXCEPT ![r].pc = "co_email"]
       ELSE /\ reqs' = [reqs EXCEPT ![r] = Respond(@, 500, "Failed to place order")]
            /\ UNCHANGED carts
    /\ UNCHANGED <<products, orders, intents>>

\* What the handler answers once emailService.sendOrderConfirmation has
\* returned (sent) or thrown (sendMail failed: the error is rethrown and the
\* handler's catch block answers).
CreateOrderAnswer(req, sent) ==
    IF sent THEN Respond(req, 201, "Order placed successfully")
    ELSE Respond(req, 500, "Failed to place order")

\* await emailService.sendOrderConfirmation(order, req.user) and the response.
CreateOrderEmail(r) ==
    /\ reqs[r].pc = "co_email"
    /\ \E sent \in BOOLEAN :
        reqs' = [reqs EXCEPT ![r] = CreateOrderAnswer(@, sent)]
    /\ UNCHANGED <<products, carts, orders, intents>>

CreateOrder(r) ==
    \/ CreateOrderLoad(r)
    \/ CreateOrderIntent(r)
    \/ CreateOrderSave(r)
    \/ CreateOrderStock(r)
    \/ CreateOrderClear(r)
    \/ CreateOrderEmail(r)

\* ------------------------------------------------------- payment gateway

\* The customer pays at the gateway: the intent becomes succeeded.
GatewaySettle ==
    /\ \E k \in 1..Len(intents) :
        /\ intents[k] = "requires_payment_method"
        /\ intents' = [intents EXCEPT ![k] = "succeeded"]
    /\ UNCHANGED <<products, carts, orders, reqs>>

\* ------------------------------------- POST /orders/:id/payment (confirmPayment)

\* if (order.paymentStatus === 'completed') return 400 'Order already paid'
AlreadyPaid(order) == order.paymentStatus = "completed"

\* Variant of PaymentUpdate: a paid order also moves one stage on.
PaymentUpdate_Advance(order, paymentIntentId) ==
    [order EXCEPT !.paymentStatus = "completed", !.paymentId = paymentIntentId,
                  !.orderStatus = IF @ = "pending" THEN "confirmed"
                                  ELSE IF @ = "confirmed" THEN "processing" ELSE @]

\* order.paymentStatus = 'completed'; order.paymentId = paymentIntentId;
\* order.save() writes the two modified paths.
PaymentUpdate(order, paymentIntentId) ==
    [order EXCEPT !.paymentStatus = "completed", !.paymentId = paymentIntentId]

\* Variant of IntentAccepted: only a canceled intent is refused.
IntentAccepted_NotCanceled(status) == status # "canceled"

\* What the handler does with the retrieved intent: TRUE when it goes on to
\* mark the order paid, FALSE when it answers 400 'Payment failed'.
IntentAccepted(status) == status = "succeeded"

\* The request arrives; Order.findById and the checks before the gateway call.
ConfirmPaymentLoad(r) ==
    /\ CanStart(r)
    /\ \E u \in Customers, oid \in 1..Len(orders), k \in 1..Len(intents) :
        LET req == [IdleReq EXCEPT !.op = "confirmPayment", !.user = u,
                                   !.oid = oid, !.intent = k]
        IN  reqs' = [reqs EXCEPT ![r] =
                IF oid \notin DOMAIN orders THEN Respond(req, 404, "Order not found")
                ELSE IF orders[oid].user # u THEN Respond(req, 403, "Not authorized")
                ELSE IF AlreadyPaid(orders[oid])
                THEN Respond(req, 400, "Order already paid")
                ELSE [req EXCEPT !.pc = "cp_retrieve"]]
    /\ UNCHANGED <<products, carts, orders, intents>>

\* await stripe.paymentIntents.retrieve(paymentIntentId): the call throws
\* (500), or answers the intent, whose status decides.
ConfirmPaymentRetrieve(r) ==
    /\ reqs[r].pc = "cp_retrieve"
    /\ \/ reqs' = [reqs EXCEPT ![r] = Respond(@, 500, "Payment processing failed")]
       \/ reqs' = [reqs EXCEPT ![r] =
                IF IntentAccepted(intents[reqs[r].intent])
                THEN [@ EXCEPT !.pc = "cp_save"]
                ELSE Respond(@, 400, "Payment failed")]
    /\ UNCHANGED <<products, carts, orders, intents>>

\* await order.save()
ConfirmPaymentSave(r) ==
    /\ reqs[r].pc = "cp_save"
    /\ orders' = [orders EXCEPT ![reqs[r].oid] = PaymentUpdate(@, reqs[r].intent)]
    /\ reqs' = [reqs EXCEPT ![r].pc = "cp_email"]
    /\ UNCHANGED <<products, carts, intents>>

\* await emailService.sendOrderConfirmation(order, req.user) and the response.
ConfirmPaymentEmail(r) ==
    /\ reqs[r].pc = "cp_email"
    /\ \E sent \in BOOLEAN :
        reqs' = [reqs EXCEPT ![r] =
            IF sent THEN Respond(@, 200, "Payment successful")
            ELSE Respond(@, 500, "Payment processing failed")]
    /\ UNCHANGED <<products, carts, orders, intents>>

ConfirmPayment(r) ==
    \/ ConfirmPaymentLoad(r)
    \/ ConfirmPaymentRetrieve(r)
    \/ ConfirmPaymentSave(r)
    \/ ConfirmPaymentEmail(r)

\* ----------------------------------------- PUT /orders/:id/cancel (cancelOrder)

\* Variant of CancelRefusal: the delivered check is missing.
CancelRefusal_DeliveredOk(order) ==
    IF order.orderStatus = "cancelled" THEN "Order already cancelled" ELSE ""

\* The two terminal-state checks: the 400 message, or "" when the order may
\* be cancelled.
CancelRefusal(order) ==
    IF order.orderStatus = "delivered" THEN "Cannot cancel delivered order"
    ELSE IF order.orderStatus = "cancelled" THEN "Order already cancelled"
    ELSE ""

\* order.orderStatus = 'cancelled'; order.save() writes the modified path.
CancelUpdate(order) == [order EXCEPT !.orderStatus = "cancelled"]

\* Variant of StockAfterCancel: one unit per line is restored.
StockAfterCancel_One(stock, quantity) == stock + 1

\* $inc: { stock: item.quantity }
StockAfterCancel(stock, quantity) == stock + quantity

\* The request arrives; Order.findById and the checks before the save.
CancelOrderLoad(r) ==
    /\ CanStart(r)
    /\ \E u \in Users, oid \in 1..Len(orders) :
        LET req == [IdleReq EXCEPT !.op = "cancelOrder", !.user = u, !.oid = oid]
        IN  reqs' = [reqs EXCEPT ![r] =
                IF oid \notin DOMAIN orders THEN Respond(req, 404, "Order not found")
                ELSE IF orders[oid].user # u THEN Respond(req, 403, "Not authorized")
                ELSE IF CancelRefusal(orders[oid]) # ""
                THEN Respond(req, 400, CancelRefusal(orders[oid]))
                ELSE [req EXCEPT !.pc = "ca_save"]]
    /\ UNCHANGED <<products, carts, orders, intents>>

\* await order.save()
CancelOrderSave(r) ==
    /\ reqs[r].pc = "ca_save"
    /\ orders' = [orders EXCEPT ![reqs[r].oid] = CancelUpdate(@)]
    /\ reqs' = [reqs EXCEPT ![r].pc = "ca_stock", ![r].i = 1]
    /\ UNCHANGED <<products, carts, intents>>

\* One pass of the restore loop over order.items (an order's items never
\* change, so the loaded document's items are the stored ones); after the last
\* pass the handler answers 200.
CancelOrderStock(r) ==
    /\ reqs[r].pc = "ca_stock"
    /\ LET item == orders[reqs[r].oid].items[reqs[r].i]
       IN  products' = [products EXCEPT ![item.product].stock =
                            StockAfterCancel(@, item.quantity)]
    /\ reqs' = [reqs EXCEPT ![r] =
            IF reqs[r].i = Len(orders[reqs[r].oid].items)
            THEN Respond(@, 200, "Order cancelled successfully")
            ELSE [@ EXCEPT !.i = @ + 1]]
    /\ UNCHANGED <<carts, orders, intents>>

CancelOrder(r) ==
    \/ CancelOrderLoad(r)
    \/ CancelOrderSave(r)
    \/ CancelOrderStock(r)

\* ---------------------------------------- PUT /orders/:id/status (updateStatus)

\* The update document of Order.findByIdAndUpdate.
StatusUpdate(order, status) ==
    [order EXCEPT !.orderStatus = status,
                  !.deliveredAt = IF status = "delivered" THEN TRUE ELSE @]

\* The whole handler: one atomic findByIdAndUpdate.
UpdateStatus(r) ==
    /\ CanStart(r)
    /\ \E u \in Users, oid \in 1..Len(orders), status \in StatusInputs :
        LET req == [IdleReq EXCEPT !.op = "updateStatus", !.user = u, !.oid = oid]
        IN  IF Role(u) # "admin"
            THEN /\ reqs' = [reqs EXCEPT ![r] = Respond(req, 403, "Admin access required")]
                 /\ UNCHANGED orders
            ELSE IF status \notin ValidStatuses
            THEN /\ reqs' = [reqs EXCEPT ![r] = Respond(req, 400, "Invalid order status")]
                 /\ UNCHANGED orders
            ELSE /\ orders' = [orders EXCEPT ![oid] = StatusUpdate(@, status)]
                 /\ reqs' = [reqs EXCEPT ![r] =
                        Respond(req, 200, "Order status updated successfully")]
    /\ UNCHANGED <<products, carts, intents>>

\* ------------------------------------------- PUT /products/:id (admin update)

\* ------------------------------------------------------------ cart routes

\* body('quantity').isInt({ min: 1, max: 10 }): the largest quantity a cart
\* request may carry.
MaxLineQty == 10

\* The quantities POST /cart/items is sent in the model (the last is invalid).
AddQuantities == {1, MaxLineQty, MaxLineQty + 1}
\* The quantities PUT /cart/items/:productId is sent in the model.
UpdateQuantities == {0, MaxLineQty}

\* The coupons POST /cart/coupon is sent in the model: discount is a percent
\* for "percentage" and an amount in rupees for "fixed".
Fixed50 == [code |-> "FLAT50", discount |-> 50, discountType |-> "fixed"]
Fixed2000 == [code |-> "FLAT2000", discount |-> 2000, discountType |-> "fixed"]
Percent150 == [code |-> "SAVE150", discount |-> 150, discountType |-> "percentage"]
BadType == [code |-> "BOGO", discount |-> 10, discountType |-> "bogo"]
CouponInputs == {TenPercent, Fixed50, Fixed2000, Percent150, BadType}

\* The validators of POST /cart/items, PUT /cart/items/:productId and
\* POST /cart/coupon.
AddQuantityValid(q) == q \in 1..MaxLineQty
UpdateQuantityValid(q) == q \in 0..MaxLineQty
CouponAccepted(c) ==
    /\ c.code # ""
    /\ c.discount >= 0 /\ c.discount <= 100
    /\ c.discountType \in {"percentage", "fixed"}

\* cartSchema.coupon: the schema validation a save runs on the coupon.
SchemaCouponValid(c) ==
    /\ c.discount >= 0 /\ c.discount <= 100
    /\ c.discountType \in {"percentage", "fixed"}

\* Variant of FoundCart: a missing cart is taken for an empty one.
FoundCart_Always(cart) == TRUE

\* if (!cart) throw new Error('Cart not found'): the test on Cart.findOne's
\* result.
FoundCart(cart) == cart.exists

\* cart.items.find(item => item.product == productId): the index of the first
\* line for p, 0 when there is none.
FindLine(items, p) ==
    IF \E k \in 1..Len(items) : items[k].product = p
    THEN CHOOSE k \in 1..Len(items) :
            /\ items[k].product = p
            /\ \A j \in 1..(k - 1) : items[j].product # p
    ELSE 0

\* cartSchema.statics.addItem on a found cart: the quantity is added to the
\* existing line, or a new line is pushed with price 0.
AddedItems(items, p, q) ==
    IF FindLine(items, p) # 0
    THEN [items EXCEPT ![FindLine(items, p)].quantity = @ + q]
    ELSE Append(items, Line(p, q, 0))

\* cartSchema.statics.updateItemQuantity: item.quantity = quantity.
QuantitySet(items, p, q) == [items EXCEPT ![FindLine(items, p)].quantity = q]

\* cart.items.filter(item => item.product != productId)
WithoutProduct(items, p) ==
    LET Keep(l) == l.product # p IN SelectSeq(items, Keep)

\* cart.items once the lines of the products in drop are filtered out.
WithoutProducts(items, drop) ==
    LET Keep(l) == l.product \notin drop IN SelectSeq(items, Keep)

\* Variant of CouponApplied: a cart that holds a coupon keeps it.
CouponApplied_KeepFirst(cart, coupon) ==
    IF cart.coupon = NoCoupon THEN [cart EXCEPT !.coupon = coupon] ELSE cart

\* cartSchema.statics.applyCoupon: cart.coupon = { code, discount, discountType }
CouponApplied(cart, coupon) == [cart EXCEPT !.coupon = coupon]

\* The message of the 200 answer of the routes that end in updateCartPrices.
CartMessage(req) ==
    IF req.op = "addItem" THEN "Item added to cart successfully"
    ELSE IF req.op = "removeItem" THEN "Item removed from cart successfully"
    ELSE IF req.quantity = 0 THEN "Item removed from cart"
    ELSE "Cart updated successfully"

\* The message of the 500 answer of the same routes.
CartError(req) ==
    IF req.op = "addItem" THEN "Failed to add item to cart"
    ELSE IF req.op = "removeItem" THEN "Failed to remove item from cart"
    ELSE "Failed to update cart"

\* cart.save() sends only what the handler changed on its document, the delta:
\* "push" for a line pushed to items ($push, increments the version key),
\* "line" for a field of an existing line set in place ($set by position,
\* refused with a VersionError unless the stored version is the one read),
\* "items" for an items array that was replaced ($set, refused likewise,
\* increments the version key), "none" when no path of items changed.
\* Stale: the condition of the VersionError.
Stale(stored, local) == stored.v # local.v

\* Where a handler goes once Cart.addItem / removeItem / updateItemQuantity
\* has saved: into the loop of updateCartPrices, or to its save when the cart
\* has no line.
AfterSave(req) ==
    [req EXCEPT !.pc = IF req.cart.items = <<>> THEN "cart_resave" ELSE "cart_refresh",
                !.i = 1]

\* POST /cart/items arrives: the validators, await Product.findById and the
\* checks on the product.
AddItemLoad(r) ==
    /\ CanStart(r)
    /\ \E u \in Customers, p \in Products, q \in AddQuantities :
        LET req == [IdleReq EXCEPT !.op = "addItem", !.user = u,
                                   !.product = p, !.quantity = q]
        IN  reqs' = [reqs EXCEPT ![r] =
                IF ~AddQuantityValid(q) THEN Respond(req, 400, "Validation failed")
                ELSE IF ~products[p].isActive
                THEN Respond(req, 400, "Product is not available")
                ELSE IF products[p].stock < q
                THEN Respond(req, 400, "Only N items available in stock")
                ELSE [req EXCEPT !.pc = "ai_find"]]
    /\ UNCHANGED <<products, carts, orders, intents>>

\* Cart.addItem: await this.findOne({ user }) and the change made to the
\* document read (or the new cart document), up to the save.
AddItemFind(r) ==
    /\ reqs[r].pc = "ai_find"
    /\ LET cart == carts[reqs[r].user]
       IN  reqs' = [reqs EXCEPT ![r] =
                IF ~cart.exists
                THEN [@ EXCEPT !.pc = "cart_create",
                               !.cart = MkCart(<<Line(reqs[r].product,
                                                      reqs[r].quantity, 0)>>, NoCoupon)]
                ELSE [@ EXCEPT !.pc = "cart_save",
                               !.delta = IF FindLine(cart.items, reqs[r].product) # 0
                                         THEN "line" ELSE "push",
                               !.cart = [cart EXCEPT !.items =
                                            AddedItems(@, reqs[r].product, reqs[r].quantity)]]]
    /\ UNCHANGED <<products, carts, orders, intents>>

AddItem(r) ==
    \/ AddItemLoad(r)
    \/ AddItemFind(r)

\* Cart.removeItem on the document read: cart.items = cart.items.filter(...),
\* which changes the document only when a line goes.
RemovedFrom(req, cart, p) ==
    [req EXCEPT !.pc = "cart_save",
                !.delta = IF FindLine(cart.items, p) # 0 THEN "items" ELSE "none",
                !.cart = [cart EXCEPT !.items = WithoutProduct(@, p)]]

\* PUT /cart/items/:productId arrives: the validator; quantity 0 goes into
\* Cart.removeItem (findOne, filter); any other quantity awaits
\* Product.findById and checks the stock.
UpdateQuantityLoad(r) ==
    /\ CanStart(r)
    /\ \E u \in Customers, p \in Products, q \in UpdateQuantities :
        LET req == [IdleReq EXCEPT !.op = "updateQuantity", !.user = u,
                                   !.product = p, !.quantity = q]
        IN  reqs' = [reqs EXCEPT ![r] =
                IF ~UpdateQuantityValid(q) THEN Respond(req, 400, "Validation failed")
                ELSE IF q = 0
                THEN IF ~FoundCart(carts[u]) THEN Respond(req, 404, "Cart not found")
                     ELSE RemovedFrom(req, carts[u], p)
                ELSE IF products[p].stock < q
                THEN Respond(req, 400, "Only N items available in stock")
                ELSE [req EXCEPT !.pc = "uq_find"]]
    /\ UNCHANGED <<products, carts, orders, intents>>

\* Cart.updateItemQuantity: await this.findOne({ user }), the two throws and
\* item.quantity = quantity, up to the save.
UpdateQuantityFind(r) ==
    /\ reqs[r].pc = "uq_find"
    /\ LET cart == carts[reqs[r].user]
           k == FindLine(cart.items, reqs[r].product)
       IN  reqs' = [reqs EXCEPT ![r] =
                IF ~FoundCart(cart) THEN Respond(@, 404, "Cart not found")
                ELSE IF k = 0
                THEN Respond(@, 404, "Product not found in cart")
                ELSE [@ EXCEPT !.pc = "cart_save",
                               !.delta = IF cart.items[k].quantity = reqs[r].quantity
                                         THEN "none" ELSE "line",
                               !.cart = [cart EXCEPT !.items =
                                            QuantitySet(@, reqs[r].product, reqs[r].quantity)]]]
    /\ UNCHANGED <<products, carts, orders, intents>>

UpdateQuantity(r) ==
    \/ UpdateQuantityLoad(r)
    \/ UpdateQuantityFind(r)

\* DELETE /cart/items/:productId arrives: Cart.removeItem's findOne, throw
\* and filter, up to the save.
RemoveItemLoad(r) ==
    /\ CanStart(r)
    /\ \E u \in Customers, p \in Products :
        LET req == [IdleReq EXCEPT !.op = "removeItem", !.user = u, !.product = p]
        IN  reqs' = [reqs EXCEPT ![r] =
                IF ~FoundCart(carts[u]) THEN Respond(req, 404, "Cart not found")
                ELSE RemovedFrom(req, carts[u], p)]
    /\ UNCHANGED <<products, carts, orders, intents>>

\* newCart.save(): the cart document is inserted; the unique index on user
\* refuses it when the user has got a cart in the meantime, and the route
\* answers 500.
CartCreate(r) ==
    /\ reqs[r].pc = "cart_create"
    /\ IF carts[reqs[r].user].exists
       THEN /\ reqs' = [reqs EXCEPT ![r] = Respond(@, 500, "Failed to add item to cart")]
            /\ UNCHANGED carts
       ELSE /\ carts' = [carts EXCEPT ![reqs[r].user] = reqs[r].cart]
            /\ reqs' = [reqs EXCEPT ![r] = AfterSave(@)]
    /\ UNCHANGED <<products, orders, intents>>

\* The stored cart once the delta of the handler's document is applied.
SavedCart(stored, req) ==
    LET local == req.cart
        k == FindLine(local.items, req.product)
    IN  IF req.delta = "push"
        THEN [stored EXCEPT !.items = Append(@, local.items[Len(local.items)]),
                            !.v = @ + 1]
        ELSE IF req.delta = "line"
        THEN [stored EXCEPT !.items[k].quantity = local.items[k].quantity]
        ELSE IF req.delta = "items"
        THEN [stored EXCEPT !.items = local.items, !.v = @ + 1]
        ELSE stored

\* cart.save() of addItem, removeItem and updateItemQuantity: the delta is
\* applied to the stored cart, or the save throws a VersionError and the
\* route answers 500.
CartSave(r) ==
    /\ reqs[r].pc = "cart_save"
    /\ LET stored == carts[reqs[r].user]
       IN  IF reqs[r].delta \in {"line", "items"} /\ Stale(stored, reqs[r].cart)
           THEN /\ reqs' = [reqs EXCEPT ![r] = Respond(@, 500, CartError(@))]
                /\ UNCHANGED carts
           ELSE /\ carts' = [carts EXCEPT ![reqs[r].user] = SavedCart(@, reqs[r])]
                /\ reqs' = [reqs EXCEPT ![r] =
                        AfterSave([@ EXCEPT !.cart.v =
                            IF reqs[r].delta \in {"push", "items"} THEN @ + 1 ELSE @])]
    /\ UNCHANGED <<products, orders, intents>>

\* One pass of the loop of updateCartPrices over the lines the document had
\* when the loop began: await Product.findById(item.product); an active
\* product gives the line its current price (a change of the line when the
\* price differs), an inactive one has its lines filtered out of cart.items.
\* (No product is ever deleted in the model.)
CartRefresh(r) ==
    /\ reqs[r].pc = "cart_refresh"
    /\ LET item == reqs[r].cart.items[reqs[r].i]
           doc == products[item.product]
           last == reqs[r].i = Len(reqs[r].cart.items)
       IN  reqs' = [reqs EXCEPT ![r] =
                [@ EXCEPT !.cart.items[reqs[r].i].price =
                                IF doc.isActive THEN doc.price ELSE @,
                          !.mod = IF doc.isActive /\ doc.price # item.price
                                  THEN @ \cup {reqs[r].i} ELSE @,
                          !.drop = IF doc.isActive THEN @ ELSE @ \cup {item.product},
                          !.i = IF last THEN @ ELSE @ + 1,
                          !.pc = IF last THEN "cart_resave" ELSE @]]
    /\ UNCHANGED <<products, carts, orders, intents>>

\* The stored cart once the save of updateCartPrices is applied: the items
\* array replaced when lines were filtered out, else the changed prices set
\* in place.
RefreshedCart(stored, req) ==
    IF req.drop # {}
    THEN [stored EXCEPT !.items = WithoutProducts(req.cart.items, req.drop),
                        !.v = @ + 1]
    ELSE [stored EXCEPT !.items =
            [k \in 1..Len(stored.items) |->
                IF k \in req.mod
                THEN [stored.items[k] EXCEPT !.price = req.cart.items[k].price]
                ELSE stored.items[k]]]

\* return cart.save() of updateCartPrices, and the route's answer: 200, or 500
\* when the save throws a VersionError.
CartResave(r) ==
    /\ reqs[r].pc = "cart_resave"
    /\ LET stored == carts[reqs[r].user]
       IN  IF (reqs[r].drop # {} \/ reqs[r].mod # {}) /\ Stale(stored, reqs[r].cart)
           THEN /\ reqs' = [reqs EXCEPT ![r] = Respond(@, 500, CartError(@))]
                /\ UNCHANGED carts
           ELSE /\ carts' = [carts EXCEPT ![reqs[r].user] = RefreshedCart(@, reqs[r])]
                /\ reqs' = [reqs EXCEPT ![r] = Respond(@, 200, CartMessage(@))]
    /\ UNCHANGED <<products, orders, intents>>

RemoveItem(r) == RemoveItemLoad(r)

\* The steps POST /cart/items, PUT and DELETE /cart/items/:productId share:
\* the save of the Cart static and updateCartPrices.
CartWrite(r) ==
    \/ CartCreate(r)
    \/ CartSave(r)
    \/ CartRefresh(r)
    \/ CartResave(r)

\* DELETE /cart arrives: Cart.clearCart's findOne and throw.
ClearCartLoad(r) ==
    /\ CanStart(r)
    /\ \E u \in Customers :
        LET req == [IdleReq EXCEPT !.op = "clearCart", !.user = u]
        IN  reqs' = [reqs EXCEPT ![r] =
                IF ~FoundCart(carts[u]) THEN Respond(req, 404, "Cart not found")
                ELSE [req EXCEPT !.pc = "cl_save", !.cart = carts[u]]]
    /\ UNCHANGED <<products, carts, orders, intents>>

\* cart.items = []; cart.coupon = null; cart.save(), and the answer: the
\* items array is replaced when the document read had lines (a VersionError
\* and 500 if the stored version has moved on), the coupon is reset.
ClearCartSave(r) ==
    /\ reqs[r].pc = "cl_save"
    /\ LET stored == carts[reqs[r].user]
       IN  IF reqs[r].cart.items # <<>> /\ Stale(stored, reqs[r].cart)
           THEN /\ reqs' = [reqs EXCEPT ![r] = Respond(@, 500, "Failed to clear cart")]
                /\ UNCHANGED carts
           ELSE /\ carts' = [carts EXCEPT ![reqs[r].user] =
                        IF reqs[r].cart.items = <<>>
                        THEN [@ EXCEPT !.coupon = NoCoupon]
                        ELSE ClearedCart(@)]
                /\ reqs' = [reqs EXCEPT ![r] = Respond(@, 200, "Cart cleared successfully")]
    /\ UNCHANGED <<products, orders, intents>>

ClearCart(r) ==
    \/ ClearCartLoad(r)
    \/ ClearCartSave(r)

\* POST /cart/coupon arrives: the validators, Cart.applyCoupon's findOne and
\* throw, and cart.coupon = {...} on the document read.
ApplyCouponLoad(r) ==
    /\ CanStart(r)
    /\ \E u \in Customers, c \in CouponInputs :
        LET req == [IdleReq EXCEPT !.op = "applyCoupon", !.user = u, !.coupon = c]
        IN  reqs' = [reqs EXCEPT ![r] =
                IF ~CouponAccepted(c) THEN Respond(req, 400, "Validation failed")
                ELSE IF ~FoundCart(carts[u]) THEN Respond(req, 404, "Cart not found")
                ELSE [req EXCEPT !.pc = "ac_save"]]
    /\ UNCHANGED <<products, carts, orders, intents>>

\* cart.save() of applyCoupon: the coupon is validated against the schema and
\* written, and the route answers 200 without calling updateCartPrices.
ApplyCouponSave(r) ==
    /\ reqs[r].pc = "ac_save"
    /\ IF SchemaCouponValid(reqs[r].coupon)
       THEN /\ carts' = [carts EXCEPT ![reqs[r].user] = CouponApplied(@, reqs[r].coupon)]
            /\ reqs' = [reqs EXCEPT ![r] = Respond(@, 200, "Coupon applied successfully")]
       ELSE /\ reqs' = [reqs EXCEPT ![r] = Respond(@, 500, "Failed to apply coupon")]
            /\ UNCHANGED carts
    /\ UNCHANGED <<products, orders, intents>>

ApplyCoupon(r) ==
    \/ ApplyCouponLoad(r)
    \/ ApplyCouponSave(r)

\* ------------------------------------------------------- product updates

\* The request bodies the admin sends in the model: a product is taken off
\* sale, or renamed and repriced (70000 paise).
ProductUpdates == {[isActive |-> FALSE], [name |-> "renamed", price |-> 70000]}

\* The product document after findByIdAndUpdate(id, body): the fields of the
\* body replace the document's.
UpdatedProduct(doc, body) ==
    [f \in DOMAIN doc |-> IF f \in DOMAIN body THEN body[f] ELSE doc[f]]

\* Variant of UpdateProduct: the update is also written into the items of
\* the orders that hold the product.
UpdateProduct_Cascade(r) ==
    /\ CanStart(r)
    /\ \E p \in Products, body \in ProductUpdates :
        /\ UpdatedProduct(products[p], body) # products[p]
        /\ products' = [products EXCEPT ![p] = UpdatedProduct(@, body)]
        /\ orders' = [oid \in 1..Len(orders) |->
                [orders[oid] EXCEPT !.items =
                    [k \in 1..Len(orders[oid].items) |->
                        IF orders[oid].items[k].product = p
                        THEN [orders[oid].items[k] EXCEPT
                                !.price = UpdatedProduct(products[p], body).price,
                                !.name = UpdatedProduct(products[p], body).name]
                        ELSE orders[oid].items[k]]]]
        /\ reqs' = [reqs EXCEPT ![r] =
                Respond([IdleReq EXCEPT !.op = "updateProduct", !.user = "admin"],
                        200, "Product updated successfully")]
    /\ UNCHANGED <<carts, intents>>

\* Product.findByIdAndUpdate(req.params.id, req.body): one atomic update by
\* an admin (authorize('admin') lets nobody else in). The model sends only
\* updates that change the document.
UpdateProduct(r) ==
    /\ CanStart(r)
    /\ \E p \in Products, body \in ProductUpdates :
        /\ UpdatedProduct(products[p], body) # products[p]
        /\ products' = [products EXCEPT ![p] = UpdatedProduct(@, body)]
        /\ reqs' = [reqs EXCEPT ![r] =
                Respond([IdleReq EXCEPT !.op = "updateProduct", !.user = "admin"],
                        200, "Product updated successfully")]
    /\ UNCHANGED <<carts, orders, intents>>

\* ------------------------------------------------------------ specification

Next ==
    \/ \E r \in Reqs : CreateOrder(r)
    \/ \E r \in Reqs : ConfirmPayment(r)
    \/ \E r \in Reqs : CancelOrder(r)
    \/ \E r \in Reqs : UpdateStatus(r)
    \/ \E r \in Reqs : UpdateProduct(r)
    \/ GatewaySettle


Spec == Init /\ [][Next]_vars

\* The cart routes on their own: every product has stock for a full line,
\* the first customer holds a one-line cart, the second none, and no order
\* exists.
InitCart ==
    /\ products = [p \in Products |-> [InitProducts[p] EXCEPT !.stock = MaxLineQty]]
    /\ carts = [u \in Users |->
                    IF u = "u1"
                    THEN MkCart(<<Line("p1", MaxQty, InitProducts["p1"].price)>>, NoCoupon)
                    ELSE NoCart]
    /\ orders = <<>>
    /\ intents = <<>>
    /\ reqs = [r \in Reqs |-> IdleReq]

NextCart ==
    \/ \E r \in Reqs : AddItem(r)
    \/ \E r \in Reqs : UpdateQuantity(r)
    \/ \E r \in Reqs : RemoveItem(r)
    \/ \E r \in Reqs : CartWrite(r)
    \/ \E r \in Reqs : ClearCart(r)
    \/ \E r \in Reqs : ApplyCoupon(r)
    \/ \E r \in Reqs : UpdateProduct(r)

SpecCart == InitCart /\ [][NextCart]_vars

\* Two more coupons POST /cart/coupon accepts: a fixed 100 and a 100%.
Fixed100 == [code |-> "FLAT100", discount |-> 100, discountType |-> "fixed"]
Percent100 == [code |-> "FREE", discount |-> 100, discountType |-> "percentage"]

\* The carts the checkout totals are computed for: up to MaxQty of p1 and 0, 1
\* or 8 of p2 at their current prices (subtotals from 50 to 1600 rupees, 1000
\* among them), with no coupon or a coupon the coupon route accepts.
TotalsCoupons ==
    {c \in {TenPercent, Fixed100, Percent100} : CouponAccepted(c)} \cup {NoCoupon}
TotalsItems ==
    {WithoutProducts(<<Line("p1", q1, InitProducts["p1"].price),
                       Line("p2", q2, InitProducts["p2"].price)>>,
                     {IF q1 = 0 THEN "p1" ELSE "none", IF q2 = 0 THEN "p2" ELSE "none"}) :
        q1 \in 0..MaxQty, q2 \in {0, 1, 8}} \ {<<>>}

\* Checkout on its own, for the totals: the first customer holds one of the
\* carts above, every product has stock for a full line, nobody else has a
\* cart.
InitTotals ==
    /\ products = [p \in Products |-> [InitProducts[p] EXCEPT !.stock = MaxLineQty]]
    /\ \E items \in TotalsItems, c \in TotalsCoupons :
            carts = [u \in Users |-> IF u = "u1" THEN MkCart(items, c) ELSE NoCart]
    /\ orders = <<>>
    /\ intents = <<>>
    /\ reqs = [r \in Reqs |-> IdleReq]

NextTotals == \E r \in Reqs : CreateOrder(r)

SpecTotals == InitTotals /\ [][NextTotals]_vars

\* ----------------------------------------------------------------- claims

\* Quantity of product p in an order's items.
RECURSIVE QtyOf(_, _)
QtyOf(items, p) ==
    IF items = <<>> THEN 0
    ELSE (IF Head(items).product = p THEN Head(items).quantity ELSE 0)
         + QtyOf(Tail(items), p)

\* Sum of f[r] over a set of request slots.
RECURSIVE SumOver(_, _)
SumOver(S, f) ==
    IF S = {} THEN 0
    ELSE LET r == CHOOSE x \in S : TRUE IN f[r] + SumOver(S \ {r}, f)

\* The createOrder requests that were answered 201.
Committed ==
    {r \in Reqs : reqs[r].op = "createOrder" /\ reqs[r].pc = "done"
                  /\ reqs[r].result.status = 201}

\* Quantity of p in the orders of the createOrder requests answered 201.
CommittedQty(p) ==
    SumOver(Committed, [r \in Reqs |->
        IF r \in Committed THEN QtyOf(orders[reqs[r].oid].items, p) ELSE 0])

\* Only createOrder requests have arrived so far.
OnlyCheckouts == \A r \in Reqs : reqs[r].op \in {"none", "createOrder"}

\* C1: with only createOrder requests running, in any interleaving, the
\* quantities of a product in the successfully committed orders never sum to
\* more than the product's initial stock.
C1_StockInvariant ==
    OnlyCheckouts => \A p \in Products : CommittedQty(p) <= InitStock

\* C2: in every reachable state every product's stock is at least 0.
C2_StockNonNegative == \A p \in Products : products[p].stock >= 0

\* Request r takes its first step in this step, as operation op.
Arrives(r, op) == reqs[r].pc = "idle" /\ reqs'[r].op = op

\* Some line of the cart is for an inactive product or asks for more than
\* the product's current stock.
HasUnavailableLine(cart) ==
    \E k \in 1..Len(cart.items) :
        \/ ~products[cart.items[k].product].isActive
        \/ cart.items[k].quantity > products[cart.items[k].product].stock

\* C3: a createOrder that finds a cart line whose product is inactive or
\* whose quantity exceeds the current stock ends at once with a 400
\* (unavailable / insufficient stock) and has written nothing: no order, no
\* stock change, the cart as it was.
C3_ValidationAborts ==
    [][\A r \in Reqs :
        (Arrives(r, "createOrder") /\ HasUnavailableLine(carts[reqs'[r].user]))
        => /\ reqs'[r].pc = "done"
           /\ reqs'[r].result \in
                {[status |-> 400, message |-> "is no longer available"],
                 [status |-> 400, message |-> "only has N items in stock"]}
           /\ orders' = orders
           /\ products' = products
           /\ carts' = carts]_vars

\* A checkout was refused for an inactive product; the cart still holds its
\* two lines and its coupon, and no order exists.
C3_Witness ==
    \E r \in Reqs :
        /\ reqs[r].op = "createOrder"
        /\ reqs[r].result = [status |-> 400, message |-> "is no longer available"]
        /\ Len(carts[reqs[r].user].items) = 2
        /\ carts[reqs[r].user].coupon = TenPercent
        /\ orders = <<>>

\* C4: when createOrder clears the cart, the cart is left with no items and
\* no coupon, the order it created holds exactly the cart's lines (product,
\* quantity) as read at checkout, and the rest of the request leaves the cart
\* alone.
C4_CartClearedOrderMatches ==
    [][\A r \in Reqs :
        /\ (reqs[r].pc = "co_clear" /\ reqs'[r].pc = "co_email")
            => /\ carts'[reqs[r].user].items = <<>>
               /\ carts'[reqs[r].user].coupon = NoCoupon
               /\ Len(orders[reqs[r].oid].items) = Len(reqs[r].cart.items)
               /\ \A k \in 1..Len(reqs[r].cart.items) :
                    /\ orders[reqs[r].oid].items[k].product
                            = reqs[r].cart.items[k].product
                    /\ orders[reqs[r].oid].items[k].quantity
                            = reqs[r].cart.items[k].quantity
        /\ (reqs[r].pc = "co_email" /\ reqs'[r].pc = "done")
            => carts' = carts]_vars

\* A checkout of a two-line cart with a coupon has just cleared the cart.
C4_Witness ==
    \E r \in Reqs :
        /\ reqs[r].pc = "co_email"
        /\ Len(reqs[r].cart.items) = 2
        /\ reqs[r].cart.coupon = TenPercent
        /\ carts[reqs[r].user].exists
        /\ carts[reqs[r].user].items = <<>>
        /\ carts[reqs[r].user].coupon = NoCoupon
        /\ Len(orders[reqs[r].oid].items) = 2

\* C5: whether or not the order-confirmation notification can be sent, a
\* createOrder that has come to send it answers with the success result.
C5_NotificationBestEffort ==
    [][\A r \in Reqs :
        (reqs[r].pc = "co_email" /\ reqs'[r].pc = "done")
        => reqs'[r].result.status = 201]_vars

\* The three fields of an order that confirmPayment is about.
PaymentState(order) == <<order.paymentStatus, order.paymentId, order.orderStatus>>

\* Request r, a confirmPayment of order oid with intent k, takes a step.
ConfirmStep(r, oid, k) ==
    /\ reqs'[r] # reqs[r]
    /\ reqs'[r].op = "confirmPayment"
    /\ reqs'[r].oid = oid
    /\ reqs'[r].intent = k

\* C6: once confirmPayment with a succeeded intent has marked an order paid,
\* any further confirmPayment of that order with the same intent, at any of
\* its steps, leaves paymentStatus, paymentId and orderStatus as they are.
C6_ConfirmIdempotent ==
    [][\A r \in Reqs, oid \in 1..Len(orders), k \in 1..Len(intents) :
        (/\ ConfirmStep(r, oid, k)
         /\ intents[k] = "succeeded"
         /\ orders[oid].paymentStatus = "completed"
         /\ orders[oid].paymentId = k)
        => PaymentState(orders'[oid]) = PaymentState(orders[oid])]_vars

\* Two confirmPayment requests of the same order with the same intent have
\* ended: the first marked the order paid, the second came after it.
C6_Witness ==
    \E r1, r2 \in Reqs :
        /\ r1 # r2
        /\ reqs[r1].op = "confirmPayment" /\ reqs[r2].op = "confirmPayment"
        /\ reqs[r1].oid = reqs[r2].oid /\ reqs[r1].intent = reqs[r2].intent
        /\ reqs[r1].result.status = 200
        /\ reqs[r2].result.message = "Order already paid"
        /\ orders[reqs[r1].oid].paymentId = reqs[r1].intent

\* C7: confirmPayment by the owner of an order that is already paid is
\* answered with a success and changes nothing.
C7_AlreadyPaidIsSuccess ==
    [][\A r \in Reqs :
        (/\ Arrives(r, "confirmPayment")
         /\ orders[reqs'[r].oid].user = reqs'[r].user
         /\ orders[reqs'[r].oid].paymentStatus = "completed")
        => /\ reqs'[r].result.status = 200
           /\ orders' = orders]_vars

\* C8: when the gateway answers an intent status other than succeeded,
\* confirmPayment ends with 400 'Payment failed' (500 when the gateway call
\* itself throws) and the order is as it was.
C8_FailedPaymentNoChange ==
    [][\A r \in Reqs :
        (/\ reqs[r].pc = "cp_retrieve"
         /\ reqs'[r] # reqs[r]
         /\ intents[reqs[r].intent] # "succeeded")
        => /\ reqs'[r].pc = "done"
           /\ reqs'[r].result \in
                {[status |-> 400, message |-> "Payment failed"],
                 [status |-> 500, message |-> "Payment processing failed"]}
           /\ orders' = orders]_vars

\* A confirmPayment was answered 'Payment failed' and its order is unpaid.
C8_Witness ==
    \E r \in Reqs :
        /\ reqs[r].op = "confirmPayment"
        /\ reqs[r].result = [status |-> 400, message |-> "Payment failed"]
        /\ orders[reqs[r].oid].paymentStatus = "pending"
        /\ orders[reqs[r].oid].paymentId = NoIntent

\* C9: cancelOrder of an order that is delivered or cancelled is refused
\* (400 with the matching message for its owner, 403 for anybody else) and
\* changes neither the order nor any stock.
C9_TerminalCancelRefused ==
    [][\A r \in Reqs :
        (/\ Arrives(r, "cancelOrder")
         /\ orders[reqs'[r].oid].orderStatus \in {"delivered", "cancelled"})
        => /\ reqs'[r].pc = "done"
           /\ reqs'[r].result =
                IF orders[reqs'[r].oid].user # reqs'[r].user
                THEN [status |-> 403, message |-> "Not authorized"]
                ELSE IF orders[reqs'[r].oid].orderStatus = "delivered"
                THEN [status |-> 400, message |-> "Cannot cancel delivered order"]
                ELSE [status |-> 400, message |-> "Order already cancelled"]
           /\ orders' = orders
           /\ products' = products]_vars

\* The owner's cancelOrder of a delivered order was refused.
C9_Witness ==
    \E r \in Reqs :
        /\ reqs[r].op = "cancelOrder"
        /\ reqs[r].result = [status |-> 400, message |-> "Cannot cancel delivered order"]
        /\ orders[reqs[r].oid].orderStatus = "delivered"

\* A createOrder and then a cancelOrder of its order have ended, and nothing
\* else has run.
RoundTrip(r1, r2) ==
    /\ reqs[r1].op = "createOrder" /\ reqs[r1].pc = "done" /\ reqs[r1].oid > 0
    /\ reqs[r2].op = "cancelOrder" /\ reqs[r2].oid = reqs[r1].oid
    /\ reqs[r2].result = [status |-> 200, message |-> "Order cancelled successfully"]
    /\ \A q \in Reqs \ {r1, r2} : reqs[q].pc = "idle"

\* C10: cancelOrder's save sets orderStatus to cancelled, each pass of its
\* restore loop adds the item's quantity to the product's stock, and after
\* createOrder followed by cancelOrder of that order, with nothing else run,
\* every product's stock is what it was before the checkout.
C10_CancelRestoresStock ==
    /\ [][\A r \in Reqs :
            /\ (reqs[r].pc = "ca_save" /\ reqs'[r].pc = "ca_stock")
                => orders'[reqs[r].oid].orderStatus = "cancelled"
            /\ (reqs[r].pc = "ca_stock" /\ reqs'[r] # reqs[r])
                => LET item == orders[reqs[r].oid].items[reqs[r].i]
                   IN  products'[item.product].stock
                            = products[item.product].stock + item.quantity]_vars
    /\ [](\A r1, r2 \in Reqs :
            RoundTrip(r1, r2)
            => /\ orders[reqs[r1].oid].orderStatus = "cancelled"
               /\ \A p \in Products : products[p].stock = InitStock)

\* A two-line order was created and cancelled and the stock is back.
C10_Witness ==
    \E r1, r2 \in Reqs :
        /\ RoundTrip(r1, r2)
        /\ Len(orders[reqs[r1].oid].items) = 2
        /\ \A p \in Products : products[p].stock = InitStock

\* C11: cancelOrder goes ahead only for the order's owner or an admin: an
\* admin who is not the owner can cancel a cancellable order, and any other
\* requester is answered 403 with the order and the stock unchanged.
C11_CancelOwnerOrAdmin ==
    [][\A r \in Reqs :
        Arrives(r, "cancelOrder")
        => LET u == reqs'[r].user
               o == orders[reqs'[r].oid]
           IN  /\ (u # o.user /\ Role(u) # "admin")
                    => /\ reqs'[r].result = [status |-> 403, message |-> "Not authorized"]
                       /\ orders' = orders
                       /\ products' = products
               /\ (u # o.user /\ Role(u) = "admin" /\ CancelRefusal(o) = "")
                    => reqs'[r].pc = "ca_save"
               /\ reqs'[r].pc = "ca_save" => (u = o.user \/ Role(u) = "admin")]_vars

\* C12: in no interleaving of cancelOrder with updateStatus(delivered) does
\* cancelOrder write "cancelled" (and go on to restore stock) over an order
\* that has been marked delivered since cancelOrder read it.
C12_NoCancelAfterDelivered ==
    [][\A r \in Reqs :
        (reqs[r].pc = "ca_save" /\ reqs'[r].pc = "ca_stock")
        => orders[reqs[r].oid].orderStatus # "delivered"]_vars

\* C13: when the payment intent cannot be created for a card checkout, the
\* request ends with a 500, no stock is decremented, the cart is not cleared
\* and no order is stored (so none is left behind with an intent reference or
\* a payment status other than pending).
C13_IntentFailureAborts ==
    [][\A r \in Reqs :
        (reqs[r].pc = "co_intent" /\ reqs'[r] # reqs[r] /\ intents' = intents)
        => /\ reqs'[r].pc = "done"
           /\ reqs'[r].result = [status |-> 500, message |-> "Failed to place order"]
           /\ reqs'[r].oid = 0
           /\ orders' = orders
           /\ products' = products
           /\ carts' = carts]_vars

\* A card checkout failed at the intent creation: no order and no intent
\* exist, the cart still has its lines and the stock is untouched.
C13_Witness ==
    \E r \in Reqs :
        /\ reqs[r].op = "createOrder" /\ reqs[r].method = "card"
        /\ reqs[r].result = [status |-> 500, message |-> "Failed to place order"]
        /\ reqs[r].intent = NoIntent
        /\ orders = <<>> /\ intents = <<>>
        /\ carts[reqs[r].user].items # <<>>
        /\ \A p \in Products : products[p].stock = InitStock

\* C14: the order that createOrder saves has orderStatus pending; its
\* paymentStatus is pending for card (with the created intent's id stored on
\* the order) and for cod, and completed for upi, netbanking and wallet.
C14_InitialStatuses ==
    /\ [][\A r \in Reqs :
            (reqs[r].pc = "co_save" /\ reqs'[r].pc = "co_stock")
            => LET o == orders'[reqs'[r].oid]
               IN  /\ o.orderStatus = "pending"
                   /\ o.paymentMethod = reqs[r].method
                   /\ o.paymentStatus =
                        IF o.paymentMethod \in {"card", "cod"}
                        THEN "pending" ELSE "completed"
                   /\ o.paymentMethod = "card"
                        => /\ o.stripePaymentIntentId = reqs[r].intent
                           /\ o.stripePaymentIntentId \in 1..Len(intents)
                   /\ o.paymentMethod # "card"
                        => o.stripePaymentIntentId = NoIntent]_vars
    /\ [](\A m \in PaymentMethods \ {"card"} :
            OfflinePaymentStatus(m) = IF m = "cod" THEN "pending" ELSE "completed")

\* A card order with its intent reference and a upi order, as saved.
C14_Witness ==
    \E a, b \in 1..Len(orders) :
        /\ orders[a].paymentMethod = "card" /\ orders[a].paymentStatus = "pending"
        /\ orders[a].stripePaymentIntentId \in 1..Len(intents)
        /\ orders[a].orderStatus = "pending"
        /\ orders[b].paymentMethod = "upi" /\ orders[b].paymentStatus = "completed"
        /\ orders[b].orderStatus = "pending"

\* Request r ends in this step with a 200 answer.
Succeeds(r) ==
    reqs[r].pc # "done" /\ reqs'[r].pc = "done" /\ reqs'[r].result.status = 200

\* C15: after any sequence of addItem, updateQuantity and removeItem every
\* cart line has a quantity from 1 to 10, and an addItem that would take an
\* existing line above 10 is refused with an error and stores nothing.
C15_LineQuantityInRange ==
    /\ [](\A u \in Users : \A k \in 1..Len(carts[u].items) :
            carts[u].items[k].quantity \in 1..MaxLineQty)
    /\ [][\A r \in Reqs :
            (/\ reqs[r].pc = "ai_find"
             /\ reqs'[r] # reqs[r]
             /\ \E k \in 1..Len(carts[reqs[r].user].items) :
                    /\ carts[reqs[r].user].items[k].product = reqs[r].product
                    /\ carts[reqs[r].user].items[k].quantity + reqs[r].quantity
                            > MaxLineQty)
            => /\ reqs'[r].pc = "done"
               /\ reqs'[r].result.status >= 400]_vars

\* C16: when addItem, updateQuantity, removeItem or applyCoupon is answered
\* 200, every line left in the user's cart carries the current price of its
\* product and no line is for an inactive product.
C16_PricesCurrentAfterMutation ==
    [][\A r \in Reqs :
        (/\ Succeeds(r)
         /\ reqs'[r].op \in {"addItem", "updateQuantity", "removeItem", "applyCoupon"})
        => \A k \in 1..Len(carts'[reqs'[r].user].items) :
            LET line == carts'[reqs'[r].user].items[k]
            IN  /\ line.price = products'[line.product].price
                /\ products'[line.product].isActive]_vars

\* C17: applyCoupon on an existing cart accepts exactly the coupons whose
\* type is percentage with a discount from 0 to 100, or fixed with any
\* discount of 0 or more (a fixed 2000 is accepted); every other coupon is
\* refused as invalid input and the cart's coupon stays as it was.
C17_CouponAcceptance ==
    [][\A r \in Reqs :
        (Arrives(r, "applyCoupon") /\ carts[reqs'[r].user].exists)
        => LET c == reqs'[r].coupon
           IN  IF \/ c.discountType = "percentage" /\ c.discount \in 0..100
                  \/ c.discountType = "fixed" /\ c.discount >= 0
               THEN reqs'[r].pc = "ac_save"
               ELSE /\ reqs'[r].pc = "done"
                    /\ reqs'[r].result = [status |-> 400, message |-> "Validation failed"]
                    /\ carts' = carts]_vars

\* C18: a successful applyCoupon leaves the cart with exactly the coupon it
\* was sent, whatever coupon the cart held (so c1 then c2 leaves c2), applying
\* the coupon the cart already holds changes nothing, and no step of
\* applyCoupon changes the cart's items.
C18_CouponReplaced ==
    [][\A r \in Reqs :
        /\ (reqs[r].pc = "ac_save" /\ Succeeds(r))
            => /\ carts'[reqs[r].user].coupon = reqs[r].coupon
               /\ carts[reqs[r].user].coupon = reqs[r].coupon => carts' = carts
        /\ (reqs'[r].op = "applyCoupon" /\ reqs'[r] # reqs[r])
            => carts'[reqs'[r].user].items = carts[reqs'[r].user].items]_vars

\* Two different coupons were applied to the same cart, one after the other;
\* the cart holds the second and still has its line.
C18_Witness ==
    \E r1, r2 \in Reqs :
        /\ r1 < r2
        /\ reqs[r1].op = "applyCoupon" /\ reqs[r2].op = "applyCoupon"
        /\ reqs[r1].user = reqs[r2].user
        /\ reqs[r1].result.status = 200 /\ reqs[r2].result.status = 200
        /\ reqs[r1].coupon = Fixed50 /\ reqs[r2].coupon = TenPercent
        /\ carts[reqs[r2].user].coupon = TenPercent
        /\ carts[reqs[r2].user].items # <<>>

\* C19: removeItem and clear sent by a user who has no cart end with 404
\* 'Cart not found' and create no cart.
C19_NoCartNoCreate ==
    [][\A r \in Reqs :
        (/\ Arrives(r, "removeItem") \/ Arrives(r, "clearCart")
         /\ ~carts[reqs'[r].user].exists)
        => /\ reqs'[r].pc = "done"
           /\ reqs'[r].result = [status |-> 404, message |-> "Cart not found"]
           /\ carts' = carts]_vars

\* A removeItem and a clear of a user without a cart were both answered 404
\* and the user still has no cart.
C19_Witness ==
    \E r1, r2 \in Reqs :
        /\ reqs[r1].op = "removeItem" /\ reqs[r2].op = "clearCart"
        /\ reqs[r1].user = reqs[r2].user
        /\ reqs[r1].result = [status |-> 404, message |-> "Cart not found"]
        /\ reqs[r2].result = [status |-> 404, message |-> "Cart not found"]
        /\ carts[reqs[r1].user] = NoCart

\* C20: once an order is stored, the product, quantity, unit price and name
\* of each of its items never change, whatever runs later: product updates
\* (price, name), confirmPayment, cancelOrder, updateStatus, other checkouts.
C20_OrderItemsFrozen ==
    [][\A oid \in 1..Len(orders) :
        /\ oid \in 1..Len(orders')
        /\ orders'[oid].items = orders[oid].items]_vars

\* An order still carries the price and name its product had at checkout,
\* after the product was renamed and repriced and the order was cancelled.
C20_Witness ==
    \E oid \in 1..Len(orders) :
        /\ orders[oid].orderStatus = "cancelled"
        /\ \E k \in 1..Len(orders[oid].items) :
            LET item == orders[oid].items[k]
            IN  /\ item.price = InitProducts[item.product].price
                /\ item.name = InitProducts[item.product].name
                /\ products[item.product].price # item.price
                /\ products[item.product].name # item.name

\* sum of price x quantity over an order's items
RECURSIVE ItemsValue(_)
ItemsValue(items) ==
    IF items = <<>> THEN 0
    ELSE Head(items).price * Head(items).quantity + ItemsValue(Tail(items))

\* C21: on every order createOrder stores, tax is 18% of the subtotal before
\* discount, shipping is 0 for a subtotal above 1000 and 100 otherwise (so
\* exactly 1000 pays 100), and total = subtotal - discount + tax + shipping;
\* 2 x 600 + 1 x 50 with a 10% coupon gives 1250, 125, 225, 0 and 1350.
C21_OrderTotals ==
    \A oid \in 1..Len(orders) :
        LET o == orders[oid]
        IN  /\ o.subtotal = ItemsValue(o.items)
            /\ o.tax * 100 = o.subtotal * 18
            /\ o.shipping = IF o.subtotal > 100000 THEN 0 ELSE 10000
            /\ o.subtotal = 100000 => o.shipping = 10000
            /\ o.total = o.subtotal - o.discount + o.tax + o.shipping
            /\ (/\ o.items = <<[product |-> "p1", quantity |-> 2, price |-> 60000,
                                name |-> "p1"],
                               [product |-> "p2", quantity |-> 1, price |-> 5000,
                                name |-> "p2"]>>
                /\ o.coupon = TenPercent)
                => /\ o.subtotal = 125000 /\ o.discount = 12500
                   /\ o.tax = 22500 /\ o.shipping = 0 /\ o.total = 135000

\* The order of 2 x 600 + 1 x 50 with the 10% coupon is stored with total 1350.
C21_Witness ==
    \E oid \in 1..Len(orders) :
        /\ orders[oid].subtotal = 125000
        /\ orders[oid].coupon = TenPercent
        /\ orders[oid].total = 135000

\* C22: the discount of a cart (and of the order made from it) is 0 without
\* a coupon, subtotal x discount / 100 for a percentage coupon and the
\* smaller of discount and subtotal for a fixed coupon, which therefore never
\* takes off more than the subtotal.
C22_DiscountAmount ==
    /\ \A u \in Users :
        LET s == Subtotal(carts[u].items)
            c == carts[u].coupon
            d == DiscountAmount(carts[u].items, c)
        IN  /\ c = NoCoupon => d = 0
            /\ c.discountType = "percentage" => d * 100 = s * c.discount
            /\ c.discountType = "fixed"
                => /\ d = IF c.discount * 100 <= s THEN c.discount * 100 ELSE s
                   /\ d <= s
    /\ \A oid \in 1..Len(orders) :
        LET o == orders[oid]
        IN  /\ o.coupon = NoCoupon => o.discount = 0
            /\ o.coupon.discountType = "percentage"
                => o.discount * 100 = o.subtotal * o.coupon.discount
            /\ o.coupon.discountType = "fixed"
                => /\ o.discount =
                        IF o.coupon.discount * 100 <= o.subtotal
                        THEN o.coupon.discount * 100 ELSE o.subtotal
                   /\ o.discount <= o.subtotal

\* An order of 1 x 50 with the fixed 100 coupon: the discount is the subtotal.
C22_Witness ==
    \E oid \in 1..Len(orders) :
        /\ orders[oid].coupon = Fixed100
        /\ orders[oid].subtotal = 5000
        /\ orders[oid].discount = 5000

\* C23: the total of every stored order is at least 0, whatever the cart held
\* and whichever coupon the coupon route accepted for it.
C23_TotalNonNegative ==
    \A oid \in 1..Len(orders) : orders[oid].total >= 0

\* An order with the 100% coupon: the whole subtotal is taken off and the
\* total is tax plus shipping.
C23_Witness ==
    \E oid \in 1..Len(orders) :
        /\ orders[oid].coupon = Percent100
        /\ orders[oid].discount = orders[oid].subtotal
        /\ orders[oid].total = orders[oid].tax + orders[oid].shipping
        /\ orders[oid].total >= 0

\* C24: createOrder decrements stock only once its order is stored; when
\* the save of the order fails the request ends with a 500, no product's
\* stock changes and the cart is not cleared.
C24_StockAfterPersist ==
    [][\A r \in Reqs :
        /\ (reqs[r].pc = "co_save" /\ reqs'[r] # reqs[r] /\ orders' = orders)
            => /\ reqs'[r].pc = "done"
               /\ reqs'[r].result = [status |-> 500, message |-> "Failed to place order"]
               /\ products' = products
               /\ carts' = carts
        /\ (reqs[r].op = "createOrder" /\ reqs'[r] # reqs[r] /\ products' # products)
            => /\ reqs[r].oid \in 1..Len(orders)
               /\ orders[reqs[r].oid].user = reqs[r].user
               /\ orders[reqs[r].oid].items = reqs[r].order.items]_vars

\* A cash-on-delivery checkout failed at the save of the order: no order
\* exists, the stock is untouched and the cart still has its lines.
C24_Witness ==
    \E r \in Reqs :
        /\ reqs[r].op = "createOrder" /\ reqs[r].method = "cod"
        /\ reqs[r].result = [status |-> 500, message |-> "Failed to place order"]
        /\ reqs[r].oid = 0
        /\ orders = <<>>
        /\ carts[reqs[r].user].items # <<>>
        /\ \A p \in Products : products[p].stock = InitStock

\* C25: delivered is terminal: once an order's orderStatus is delivered, no
\* step of any later operation gives it another orderStatus.
C25_DeliveredTerminal ==
    [][\A oid \in 1..Len(orders) :
        orders[oid].orderStatus = "delivered"
        => orders'[oid].orderStatus = "delivered"]_vars

\* Only POST /cart/items requests have arrived so far.
OnlyAdds == \A r \in Reqs : reqs[r].op \in {"none", "addItem"}

\* The step in which request r, past the checks on the product, gets its
\* answer.
AddCompletes(r) ==
    /\ reqs[r].op = "addItem"
    /\ reqs[r].pc \in {"cart_create", "cart_save", "cart_refresh", "cart_resave"}
    /\ reqs'[r].pc = "done"

\* C26: concurrent addItem calls of one user for different products all take
\* effect: while only addItem calls run, a call that passed the product checks
\* leaves a line for its product in the cart when it completes, and no line
\* of the cart disappears, so that once both calls have completed the cart
\* holds both lines.
C26_ConcurrentAddsBothLand ==
    [][OnlyAdds
       => /\ \A r \in Reqs :
                AddCompletes(r)
                => FindLine(carts'[reqs[r].user].items, reqs[r].product) # 0
          /\ \A u \in Customers, p \in Products :
                FindLine(carts[u].items, p) # 0
                => FindLine(carts'[u].items, p) # 0]_vars

\* C27: the subtotal stored on every order equals the sum over its items of
\* unit price x quantity, also when a product was repriced after the cart's
\* last price refresh.
C27_SubtotalMatchesItems ==
    \A oid \in 1..Len(orders) : orders[oid].subtotal = ItemsValue(orders[oid].items)

\* C28: confirmPayment marks an order paid only with the payment intent that
\* createOrder stored on that order: never with an intent of another order,
\* and never for an order that has no intent (a non-card order).
C28_IntentBelongsToOrder ==
    [][\A r \in Reqs :
        (reqs[r].pc = "cp_save" /\ reqs'[r].pc = "cp_email")
        => /\ orders[reqs[r].oid].stripePaymentIntentId # NoIntent
           /\ orders[reqs[r].oid].stripePaymentIntentId = reqs[r].intent]_vars

\* C29: whatever cancelOrder requests run on an order, one after the other or
\* at the same time, the quantity of each of its items is added back to the
\* stock at most once: no restore pass runs for an item that another
\* cancelOrder of the same order has already restored.
C29_RestoreAtMostOnce ==
    [][\A r \in Reqs :
        (reqs[r].pc = "ca_stock" /\ reqs'[r] # reqs[r])
        => ~\E q \in Reqs \ {r} :
                /\ reqs[q].op = "cancelOrder" /\ reqs[q].oid = reqs[r].oid
                /\ \/ reqs[q].result.status = 200
                   \/ reqs[q].pc = "ca_stock" /\ reqs[q].i > reqs[r].i]_vars

\* C30: after a successful addItem the line of the added product on the
\* handler's cart document (the quantity already in the cart plus the
\* quantity added) does not exceed the stock of the product, which no step of
\* the cart routes changes.
C30_LineWithinStock ==
    [][\A r \in Reqs :
        (Succeeds(r) /\ reqs[r].op = "addItem")
        => \A k \in 1..Len(reqs[r].cart.items) :
                reqs[r].cart.items[k].product = reqs[r].product
                => reqs[r].cart.items[k].quantity
                        <= products[reqs[r].product].stock]_vars

====
